---- MODULE Spec2Model ----
(***************************************************************************)
(* Model of backend/main.py: the availability (slot) generator and the     *)
(* booking ledger of the Genetic MiniApp backend.                          *)
(*                                                                         *)
(* Strings are sequences of one-character strings, so that str.split,      *)
(* int() and the f-string that builds a slot id are modelled by what they  *)
(* do.  A datetime is the number of whole hours since 0001-01-01 00:00     *)
(* of the proleptic Gregorian calendar minus 24 (ordinal day * 24 + hour); *)
(* minutes and seconds never influence a result of the modelled handlers.  *)
(*                                                                         *)
(* main.py uses Base and SessionLocal without binding them (it imports     *)
(* declarative_base and sessionmaker, line 50, and never calls them); the  *)
(* model reads them as declarative_base() and sessionmaker(bind=engine).   *)
(***************************************************************************)
EXTENDS Integers, Sequences, FiniteSets, TLC

VARIABLES
    ledger,     \* rows of table "bookings", in insertion order
    pc,         \* pc[c]: "idle" or "running" (a POST /booking in flight)
    req,        \* req[c]: the availability_id of client c's request
    log,        \* responses of POST /booking delivered so far, in order
    query,      \* the parameters of the availability request
    avail,      \* response of GET /availability, or None
    avail_doc   \* response of GET /doctor/{id}/availability, or None

vars == <<ledger, pc, req, log, query, avail, avail_doc>>

(* ------------------------------ bounds -------------------------------- *)
NumDays == 5        \* calendar days the availability queries range over
MaxClients == 2     \* concurrent clients of POST /booking
MaxRequests == 3    \* POST /booking requests over a behaviour

Clients == 1..MaxClients
None == [status |-> 0]

(* ------------------------------ strings ------------------------------- *)
Digits == <<"0", "1", "2", "3", "4", "5", "6", "7", "8", "9">>

IsDigit(c) == \E i \in 1..Len(Digits) : Digits[i] = c

DigitVal(c) == (CHOOSE i \in 1..Len(Digits) : Digits[i] = c) - 1

\* int(s) succeeds: a non-empty run of decimal digits (signs, blanks and
\* underscores are outside the modelled alphabet)
IsInt(s) == Len(s) > 0 /\ \A i \in 1..Len(s) : IsDigit(s[i])

RECURSIVE IntOf(_)
IntOf(s) ==
    IF Len(s) = 0 THEN 0
    ELSE IntOf(SubSeq(s, 1, Len(s) - 1)) * 10 + DigitVal(s[Len(s)])

RECURSIVE NatToStr(_)
NatToStr(n) ==
    IF n < 10 THEN <<Digits[n + 1]>>
    ELSE NatToStr(n \div 10) \o <<Digits[(n % 10) + 1]>>

\* format spec 0<w>d
ZeroPad(n, w) ==
    LET s == NatToStr(n)
    IN  IF Len(s) >= w THEN s ELSE [i \in 1..(w - Len(s)) |-> "0"] \o s

\* str.split(sep) for a one-character separator
RECURSIVE str_split(_, _)
str_split(s, sep) ==
    IF \A i \in 1..Len(s) : s[i] # sep THEN <<s>>
    ELSE LET i == CHOOSE k \in 1..Len(s) :
                      s[k] = sep /\ \A j \in 1..(k - 1) : s[j] # sep
         IN  <<SubSeq(s, 1, i - 1)>> \o str_split(SubSeq(s, i + 1, Len(s)), sep)

FormatChars(f) ==
    IF f = "online" THEN <<"o", "n", "l", "i", "n", "e">>
    ELSE <<"o", "f", "f", "l", "i", "n", "e">>

(* ------------------------------ calendar ------------------------------ *)
MSK_OFFSET == 3

IsLeap(y) == y % 4 = 0 /\ (y % 100 # 0 \/ y % 400 = 0)

DaysInMonth(y, m) ==
    IF m = 2 THEN (IF IsLeap(y) THEN 29 ELSE 28)
    ELSE IF m \in {4, 6, 9, 11} THEN 30 ELSE 31

RECURSIVE DaysBeforeMonth(_, _)
DaysBeforeMonth(y, m) ==
    IF m = 1 THEN 0 ELSE DaysBeforeMonth(y, m - 1) + DaysInMonth(y, m - 1)

DaysBeforeYear(y) ==
    (y - 1) * 365 + ((y - 1) \div 4) - ((y - 1) \div 100) + ((y - 1) \div 400)

\* date(y, m, d).toordinal()
ymd2ord(y, m, d) == DaysBeforeYear(y) + DaysBeforeMonth(y, m) + d

\* date.fromordinal(n): <<year, month, day>>
ord2ymd(n) ==
    LET n0   == n - 1
        n400 == n0 \div 146097
        r400 == n0 % 146097
        n100 == r400 \div 36524
        r100 == r400 % 36524
        n4   == r100 \div 1461
        r4   == r100 % 1461
        n1   == r4 \div 365
        r1   == r4 % 365
        year == n400 * 400 + 1 + n100 * 100 + n4 * 4 + n1
    IN  IF n1 = 4 \/ n100 = 4 THEN <<year - 1, 12, 31>>
        ELSE LET month == CHOOSE m \in 1..12 :
                              /\ DaysBeforeMonth(year, m) <= r1
                              /\ r1 < DaysBeforeMonth(year, m) + DaysInMonth(year, m)
             IN  <<year, month, r1 - DaysBeforeMonth(year, month) + 1>>

\* the datetime constructor raises ValueError outside these ranges
ValidDateTime(y, m, d, h) ==
    /\ y \in 1..9999
    /\ m \in 1..12
    /\ d >= 1 /\ d <= DaysInMonth(y, m)
    /\ h \in 0..23

MakeDateTime(y, m, d, h) == ymd2ord(y, m, d) * 24 + h

DateOf(t) == t \div 24      \* .date(), as an ordinal
HourOf(t) == t % 24

\* date.weekday(): Monday is 0
Weekday(ord) == (ord + 6) % 7

\* str(date): YYYY-MM-DD
IsoDate(ord) ==
    LET ymd == ord2ymd(ord)
    IN  ZeroPad(ymd[1], 4) \o <<"-">> \o ZeroPad(ymd[2], 2) \o <<"-">> \o ZeroPad(ymd[3], 2)

\* datetime.fromisoformat on YYYY-MM-DD, YYYY-MM-DDTHH:MM and
\* YYYY-MM-DDTHH:MM+00:00; [ok, t]
fromisoformat(s) ==
    LET n     == Len(s)
        dOk   == /\ n >= 10
                 /\ IsInt(SubSeq(s, 1, 4)) /\ s[5] = "-"
                 /\ IsInt(SubSeq(s, 6, 7)) /\ s[8] = "-"
                 /\ IsInt(SubSeq(s, 9, 10))
        y     == IntOf(SubSeq(s, 1, 4))
        m     == IntOf(SubSeq(s, 6, 7))
        d     == IntOf(SubSeq(s, 9, 10))
        tOk   == /\ n >= 16
                 /\ s[11] = "T"
                 /\ IsInt(SubSeq(s, 12, 13)) /\ s[14] = ":"
                 /\ IsInt(SubSeq(s, 15, 16))
                 /\ IntOf(SubSeq(s, 15, 16)) <= 59
        h     == IntOf(SubSeq(s, 12, 13))
        zOk   == n = 22 /\ SubSeq(s, 17, 22) = <<"+", "0", "0", ":", "0", "0">>
        bad   == [ok |-> FALSE, t |-> 0]
    IN  IF ~dOk THEN bad
        ELSE IF n = 10
             THEN IF ValidDateTime(y, m, d, 0)
                  THEN [ok |-> TRUE, t |-> MakeDateTime(y, m, d, 0)] ELSE bad
        ELSE IF tOk /\ (n = 16 \/ zOk) /\ ValidDateTime(y, m, d, h)
             THEN [ok |-> TRUE, t |-> MakeDateTime(y, m, d, h)]
        ELSE bad

\* s.replace("Z", "+00:00")
RECURSIVE replace_Z(_)
replace_Z(s) ==
    IF Len(s) = 0 THEN <<>>
    ELSE (IF Head(s) = "Z" THEN <<"+", "0", "0", ":", "0", "0">> ELSE <<Head(s)>>)
         \o replace_Z(Tail(s))

(* -------------------------- slot generator ---------------------------- *)
\* range(10, 18) without the blocked hours 12 and 15
slot_hours == SelectSeq([i \in 1..8 |-> 9 + i], LAMBDA h : h \notin {12, 15})

is_workday_sat(msk_day) == Weekday(DateOf(msk_day)) < 6

\* msk_day.weekday() < 5
is_workday(msk_day) == Weekday(DateOf(msk_day)) < 5

slot_format(hour) == IF hour % 2 = 0 THEN "online" ELSE "offline"

keep_slot_unfiltered(format, f) == TRUE

\* not (format != "any" and f != format)
keep_slot(format, f) == ~(format # "any" /\ f # format)

\* f"{start_msk.date()}-{hour:02d}-{f}"
make_slot_id(start_msk, hour, f) ==
    IsoDate(DateOf(start_msk)) \o <<"-">> \o ZeroPad(hour, 2) \o <<"-">> \o FormatChars(f)

make_slot(msk_day, hour) ==
    LET start_msk == DateOf(msk_day) * 24 + hour - MSK_OFFSET
        f         == slot_format(hour)
    IN  [id        |-> make_slot_id(start_msk, hour, f),
         start_utc |-> start_msk,
         end_utc   |-> start_msk + 1,
         format    |-> f]

\* the body of one iteration of the while loop
day_slots(day, format) ==
    LET msk_day == day + MSK_OFFSET
    IN  IF is_workday(msk_day)
        THEN SelectSeq([i \in 1..Len(slot_hours) |-> make_slot(msk_day, slot_hours[i])],
                       LAMBDA s : keep_slot(format, s.format))
        ELSE <<>>

\* while day.date() <= to_dt_utc.date(): ...; day = next day at 00:00
RECURSIVE generate_slots(_, _, _)
generate_slots(day, to_dt_utc, format) ==
    IF DateOf(day) <= DateOf(to_dt_utc)
    THEN day_slots(day, format) \o generate_slots((DateOf(day) + 1) * 24, to_dt_utc, format)
    ELSE <<>>

\* GET /availability
get_availability_alias(from_date, to_date, format) ==
    LET f == fromisoformat(from_date)
        t == fromisoformat(to_date)
    IN  IF ~f.ok \/ ~t.ok THEN [status |-> 400]
        ELSE [status |-> 200, slots |-> generate_slots(f.t, t.t, format)]

\* GET /doctor/{doctor_id}/availability
get_availability(doctor_id, from_, to, format) ==
    LET f == fromisoformat(replace_Z(from_))
        t == fromisoformat(replace_Z(to))
    IN  IF doctor_id # "doc-1" THEN [status |-> 404]
        ELSE IF ~f.ok \/ ~t.ok THEN [status |-> 400]
        ELSE [status |-> 200, slots |-> generate_slots(f.t, t.t, format)]

(* --------------------------- booking ledger --------------------------- *)
\* lines 367-375: the try block that parses availability_id
\* the except clause missing: whatever the id, the handler goes on
parse_availability_id_lenient(availability_id) ==
    [ok |-> TRUE, fmt |-> <<>>, start_utc |-> 0, end_utc |-> 1]

parse_availability_id(availability_id) ==
    LET parts == str_split(availability_id, "-")
        bad   == [ok |-> FALSE, fmt |-> <<>>, start_utc |-> 0, end_utc |-> 0]
    IN  IF Len(parts) # 3 THEN bad          \* date_part, hour_part, fmt = ...
        ELSE LET ymd == str_split(parts[1], "-")
             IN  IF Len(ymd) # 3 THEN bad   \* y, m, d = map(int, ...)
                 ELSE IF \E i \in 1..3 : ~IsInt(ymd[i]) THEN bad
                 ELSE IF ~IsInt(parts[2]) THEN bad
                 ELSE LET y == IntOf(ymd[1])
                          m == IntOf(ymd[2])
                          d == IntOf(ymd[3])
                          hour == IntOf(parts[2])
                      IN  IF ~ValidDateTime(y, m, d, hour) THEN bad
                          ELSE [ok |-> TRUE,
                                fmt |-> parts[3],
                                start_utc |-> MakeDateTime(y, m, d, hour),
                                end_utc   |-> MakeDateTime(y, m, d, hour) + 1]

\* db.add(bk); db.commit() on a table with UNIQUE(availability_id) and an
\* autoincrement primary key; rows are never updated or deleted
insert_booking(db, availability_id, start_utc, end_utc) ==
    IF \E i \in 1..Len(db) : db[i].availability_id = availability_id
    THEN [ok |-> FALSE, db |-> db]
    ELSE [ok |-> TRUE,
          db |-> Append(db, [id |-> Len(db) + 1,
                             availability_id |-> availability_id,
                             start_utc |-> start_utc,
                             end_utc |-> end_utc])]

\* the row is written before the id is validated, outside the constraint
create_booking_insert_first(db, availability_id) ==
    LET p == parse_availability_id(availability_id)
    IN  [status     |-> IF p.ok THEN 200 ELSE 400,
         booking_id |-> IF p.ok THEN Len(db) + 1 ELSE 0,
         db         |-> Append(db, [id |-> Len(db) + 1,
                                    availability_id |-> availability_id,
                                    start_utc |-> p.start_utc,
                                    end_utc |-> p.end_utc])]

\* POST /booking: [status, booking_id, db]
create_booking(db, availability_id) ==
    LET p == parse_availability_id(availability_id)
    IN  IF ~p.ok THEN [status |-> 400, booking_id |-> 0, db |-> db]
        ELSE LET r == insert_booking(db, availability_id, p.start_utc, p.end_utc)
             IN  IF r.ok
                 THEN [status |-> 200, booking_id |-> Len(r.db), db |-> r.db]
                 ELSE [status |-> 409, booking_id |-> 0, db |-> db]   \* db.rollback()

(* ------------------------------- inputs ------------------------------- *)
FirstDay == ymd2ord(2023, 12, 29)       \* a Friday
Days == FirstDay..(FirstDay + NumDays - 1)
Jan1 == ymd2ord(2024, 1, 1)             \* a Monday

\* time of day of a query parameter: -1 none (YYYY-MM-DD), -2 not a date at all
TimeCodes == {-2, -1, 0, 20, 21, 23}
Formats == {"any", "online", "offline"}

Queries ==
    {q \in [from_day : Days, from_hour : TimeCodes,
            to_day : Days, to_hour : TimeCodes, format : Formats] :
        /\ q.from_hour = -2 => q.from_day = FirstDay
        /\ q.to_hour = -2 => q.to_day = FirstDay}

query_text(day, hour) ==
    IF hour = -2 THEN <<"t", "o", "d", "a", "y">>
    ELSE IF hour = -1 THEN IsoDate(day)
    ELSE IsoDate(day) \o <<"T">> \o ZeroPad(hour, 2) \o <<":", "0", "0">>

NoQuery == [from_day |-> FirstDay, from_hour |-> -1,
            to_day |-> FirstDay, to_hour |-> -1, format |-> "any"]

\* the slot ids the generator emits for Monday 2024-01-01
GeneratedIds ==
    LET r == get_availability_alias(IsoDate(Jan1), IsoDate(Jan1), "online")
    IN  {r.slots[i].id : i \in 1..Len(r.slots)}

NotARealId == <<"n", "o", "t", "-", "a", "-", "r", "e", "a", "l", "-", "i", "d">>
CompactId == <<"2", "0", "2", "4", "0", "1", "0", "1", "-", "1", "0", "-">> \o FormatChars("online")
WeekendBlockedId == IsoDate(Jan1 + 5) \o <<"-", "1", "2", "-">> \o FormatChars("offline")

ClaimIds == GeneratedIds \cup {NotARealId, CompactId, WeekendBlockedId}

(* ------------------------------ actions ------------------------------- *)
InFlight == Cardinality({c \in Clients : pc[c] = "running"})

\* a client sends POST /booking
PostBooking(c, id) ==
    /\ pc[c] = "idle"
    /\ Len(log) + InFlight < MaxRequests
    /\ pc' = [pc EXCEPT ![c] = "running"]
    /\ req' = [req EXCEPT ![c] = id]
    /\ UNCHANGED <<ledger, log, query, avail, avail_doc>>

\* the server runs create_booking for the request of client c
CreateBooking(c) ==
    /\ pc[c] = "running"
    /\ LET r == create_booking(ledger, req[c])
       IN  /\ ledger' = r.db
           /\ log' = Append(log, [id |-> req[c], status |-> r.status,
                                  booking_id |-> r.booking_id])
    /\ pc' = [pc EXCEPT ![c] = "idle"]
    /\ req' = [req EXCEPT ![c] = <<>>]
    /\ UNCHANGED <<query, avail, avail_doc>>

GetAvailabilityAlias ==
    /\ avail = None
    /\ avail' = get_availability_alias(query_text(query.from_day, query.from_hour),
                                       query_text(query.to_day, query.to_hour),
                                       query.format)
    /\ UNCHANGED <<ledger, pc, req, log, query, avail_doc>>

\* z: the date-times are sent with a trailing Z
GetAvailability(doctor_id, z) ==
    /\ avail_doc = None
    /\ LET sfx(h) == IF z /\ h >= 0 THEN <<"Z">> ELSE <<>>
       IN  avail_doc' = get_availability(
                            doctor_id,
                            query_text(query.from_day, query.from_hour) \o sfx(query.from_hour),
                            query_text(query.to_day, query.to_hour) \o sfx(query.to_hour),
                            query.format)
    /\ UNCHANGED <<ledger, pc, req, log, query, avail>>

(* --------------------------- specifications --------------------------- *)
Idle ==
    /\ ledger = <<>>
    /\ pc = [c \in Clients |-> "idle"]
    /\ req = [c \in Clients |-> <<>>]
    /\ log = <<>>
    /\ avail = None
    /\ avail_doc = None

\* the booking ledger under concurrent clients
Init == Idle /\ query = NoQuery

Next ==
    \/ \E c \in Clients, id \in ClaimIds : PostBooking(c, id)
    \/ \E c \in Clients : CreateBooking(c)

Spec == Init /\ [][Next]_vars

\* the slot generator over every query of the window
InitGen == Idle /\ query \in Queries

NextGen ==
    \/ GetAvailabilityAlias
    \/ \E doctor_id \in {"doc-1", "doc-2"}, z \in BOOLEAN : GetAvailability(doctor_id, z)

SpecGen == InitGen /\ [][NextGen]_vars

(* --------------------- properties: booking ledger --------------------- *)
Rows(S) == {i \in 1..Len(ledger) : ledger[i].availability_id = S}
Claims(S) == {i \in 1..Len(log) : log[i].id = S}

\* the right-anchored decoding the ledger is documented to apply: the last
\* two "-" separate date, hour and format
Dashes(s) == {i \in 1..Len(s) : s[i] = "-"}

LastDash(s, below) == CHOOSE i \in Dashes(s) :
                          i < below /\ \A j \in Dashes(s) : j < below => j <= i

WellShaped(s) ==
    /\ Cardinality(Dashes(s)) >= 2
    /\ LET p2   == LastDash(s, Len(s) + 1)
           p1   == LastDash(s, p2)
           date == SubSeq(s, 1, p1 - 1)
           hour == SubSeq(s, p1 + 1, p2 - 1)
       IN  /\ Len(date) = 10
           /\ IsInt(SubSeq(date, 1, 4)) /\ date[5] = "-"
           /\ IsInt(SubSeq(date, 6, 7)) /\ date[8] = "-"
           /\ IsInt(SubSeq(date, 9, 10))
           /\ IsInt(hour)
           /\ ValidDateTime(IntOf(SubSeq(date, 1, 4)), IntOf(SubSeq(date, 6, 7)),
                            IntOf(SubSeq(date, 9, 10)), IntOf(hour))

\* C1: in every reachable state no two rows of the ledger have the same
\* availability_id.
C1_NoDoubleBooking ==
    \A i, j \in 1..Len(ledger) :
        i # j => ledger[i].availability_id # ledger[j].availability_id

\* two claims of one generated slot have been answered
C1_TwoClaimsOfOneSlot ==
    \E S \in GeneratedIds : Cardinality(Claims(S)) >= 2

\* C2: when a generated slot id has been claimed twice (by one client or by
\* two), exactly one claim succeeded with a booking id, exactly one ended in
\* 409 Conflict, and the ledger holds exactly one row for the id.
C2_TwoClaimsOneSuccessOneConflict ==
    \A S \in GeneratedIds :
        Cardinality(Claims(S)) = 2 =>
            /\ Cardinality({i \in Claims(S) : log[i].status = 200 /\ log[i].booking_id > 0}) = 1
            /\ Cardinality({i \in Claims(S) : log[i].status = 409}) = 1
            /\ Cardinality(Rows(S)) = 1

\* C5: a claim of a malformed slot id is answered 400, never 409.
C5_MalformedIsInvalidIdentifier ==
    \A i \in 1..Len(log) : ~WellShaped(log[i].id) => log[i].status = 400

\* the claim of "not-a-real-id" has been answered 400
C5_NotARealIdRejected ==
    \E i \in 1..Len(log) : log[i].id = NotARealId /\ log[i].status = 400

\* C6: every step that answers a claim either succeeds and appends exactly
\* the returned row to the ledger, leaving the other rows as they were, or
\* fails and leaves the ledger unchanged; no other step changes the ledger.
C6_ClaimFrame ==
    [][ /\ ledger' # ledger => Len(log') = Len(log) + 1
        /\ Len(log') = Len(log) + 1 =>
              LET e == log'[Len(log')]
              IN  IF e.status = 200
                  THEN /\ Len(ledger') = Len(ledger) + 1
                       /\ SubSeq(ledger', 1, Len(ledger)) = ledger
                       /\ ledger'[Len(ledger')].availability_id = e.id
                       /\ ledger'[Len(ledger')].id = e.booking_id
                  ELSE ledger' = ledger ]_vars

\* a claim has failed and the ledger is as it was before it
C6_FailedClaimAnswered ==
    /\ Len(log) >= 1
    /\ log[Len(log)].status # 200
    /\ ledger = <<>>

\* C8: a claim of a well-shaped id that no earlier claim booked succeeds,
\* whatever its weekday, hour or format parity.
C8_WellShapedIsAccepted ==
    \A i \in 1..Len(log) :
        (/\ WellShaped(log[i].id)
         /\ \A j \in 1..(i - 1) : ~(log[j].id = log[i].id /\ log[j].status = 200))
        => log[i].status = 200

(* --------------------- properties: slot generator --------------------- *)
Answers == {r \in {avail, avail_doc} : r.status = 200}

from_text == query_text(query.from_day, query.from_hour)
to_text == query_text(query.to_day, query.to_hour)
DatesOnly == query.from_hour = -1 /\ query.to_hour = -1

\* C3: every id the generator emits is decoded by the ledger's parsing
\* step, and the decoding gives back the date, hour and format of the id.
C3_RoundTrip ==
    \A r \in Answers : \A i \in 1..Len(r.slots) :
        LET s == r.slots[i]
            p == parse_availability_id(s.id)
        IN  /\ p.ok
            /\ DateOf(p.start_utc) = DateOf(s.start_utc)
            /\ HourOf(p.start_utc) = HourOf(s.start_utc + MSK_OFFSET)
            /\ p.fmt = FormatChars(s.format)

\* C10: the start and end the ledger derives from a generated slot's id are
\* the slot's own start and end.
C10_SameWindow ==
    \A r \in Answers : \A i \in 1..Len(r.slots) :
        LET s == r.slots[i]
            p == parse_availability_id(s.id)
        IN  p.ok /\ p.start_utc = s.start_utc /\ p.end_utc = s.end_utc

\* the slots the specification gives a reference-zone day
ExpectedDay(d) ==
    IF Weekday(d) \in 0..4
    THEN [i \in 1..6 |->
            LET h == <<10, 11, 13, 14, 16, 17>>[i]
            IN  [start_utc |-> d * 24 + h - 3,
                 end_utc   |-> d * 24 + h - 3 + 1,
                 format    |-> IF h % 2 = 0 THEN "online" ELSE "offline"]]
    ELSE <<>>

RECURSIVE ExpectedRange(_, _)
ExpectedRange(a, b) ==
    IF a > b THEN <<>> ELSE ExpectedDay(a) \o ExpectedRange(a + 1, b)

Windows(slots) ==
    [i \in 1..Len(slots) |-> [start_utc |-> slots[i].start_utc,
                              end_utc   |-> slots[i].end_utc,
                              format    |-> slots[i].format]]

\* C4: for two calendar dates and format any, GET /availability returns, in
\* date order, six slots (hours 10, 11, 13, 14, 16, 17 of UTC+3, even hours
\* online, odd hours offline) for every Monday-Friday of the range and none
\* for a Saturday or Sunday; nothing when the range is reversed.
C4_WeekdaySlots ==
    (avail.status = 200 /\ DatesOnly /\ query.format = "any")
    => Windows(avail.slots) = ExpectedRange(query.from_day, query.to_day)

\* Friday 2023-12-29 to Monday 2024-01-01: two working days round a weekend
C4_RangeOverWeekend ==
    /\ avail.status = 200 /\ DatesOnly /\ query.format = "any"
    /\ query.from_day = FirstDay /\ query.to_day = Jan1
    /\ Len(avail.slots) = 12

\* C7: GET /availability ignores the time of day of from_date and to_date:
\* the answer is the answer to the same query with the two calendar dates.
C7_TimeOfDayIgnored ==
    avail.status = 200
    => avail = get_availability_alias(IsoDate(query.from_day), IsoDate(query.to_day),
                                      query.format)

\* C9: with format online or offline the generator returns the answer for
\* format any without the slots of the other format, each slot ending one
\* hour after its start; 2024-01-01 with online gives hours 10, 14 and 16.
C9_FormatFilter ==
    /\ \A r \in Answers :
         /\ \A i \in 1..Len(r.slots) : r.slots[i].end_utc = r.slots[i].start_utc + 1
         /\ query.format # "any" =>
              r.slots = SelectSeq(get_availability_alias(from_text, to_text, "any").slots,
                                  LAMBDA s : s.format = query.format)
    /\ \A r \in Answers :
         (DatesOnly /\ query.from_day = Jan1 /\ query.to_day = Jan1
                    /\ query.format = "online")
         => [i \in 1..Len(r.slots) |-> HourOf(r.slots[i].start_utc + MSK_OFFSET)]
                = <<10, 14, 16>>

\* 2024-01-01 has been queried with format online
C9_OnlineOnJan1 ==
    /\ avail.status = 200 /\ DatesOnly /\ query.format = "online"
    /\ query.from_day = Jan1 /\ query.to_day = Jan1
    /\ Len(avail.slots) = 3

====
